---------------------------- MODULE Spec2Model ----------------------------
(***************************************************************************)
(* IDE Agent Inbox Cron Worker (src/src/index.ts).                         *)
(*                                                                         *)
(* The worker has two handlers, scheduled (the cron trigger) and fetch     *)
(* (HTTP: /trigger and /create are modelled).  Both post task records to   *)
(* the Notion page-creation API through createNotionPage; scheduled also   *)
(* writes a row to the optional D1 log store.                              *)
(*                                                                         *)
(* An invocation is one run of a handler.  Its local variables (tasks,     *)
(* results, the loop position) are the components of the functions below,  *)
(* indexed by the invocation slot.  Every "await" of the code is a         *)
(* suspension point, and so a boundary between two actions.                *)
(***************************************************************************)
EXTENDS Naturals, Sequences, FiniteSets, TLC

\* ------------------------------------------------------------------ bounds

\* Longest tasks array a /trigger caller sends.
MaxTasks == 3

\* Rows the log store holds before the model stops starting timer runs.
MaxRows == 1

\* Invocation slots of the isolate.
Invs == {"inv1", "inv2"}

\* --------------------------------------------------------- optional values

\* A JavaScript property that is undefined (absent) or holds a value.
Absent == <<>>

Some(x) == <<x>>

Has(o) == o /= <<>>

Get(o) == o[1]

\* JavaScript truthiness of an optional string: undefined and "" are falsy.
Truthy(o) == Has(o) /\ Get(o) /= ""

\* ------------------------------------------------------------ task records

\* A value used as a TaskPayload.  The casts of request.json() are unchecked,
\* so a caller's value may be JSON null; any other value is read through its
\* properties, each of which may be undefined.
Task(t, d, s, p, g) ==
    [kind |-> "object", title |-> t, description |-> d, status |-> s,
     priority |-> p, tags |-> g]

NullTask ==
    [kind |-> "null", title |-> Absent, description |-> Absent,
     status |-> Absent, priority |-> Absent, tags |-> Absent]

\* {"title":"X"}
TaskX == Task(Some("X"), Absent, Absent, Absent, Absent)

\* A record with every field set, tags = ["a","b"].
TaskY == Task(Some("Y"), Some("notes"), Some("Done"), Some("Low"),
              Some(<<"a", "b">>))

\* {"description":""}: no title, an empty description.
TaskBlank == Task(Absent, Some(""), Absent, Absent, Absent)

\* The elements a /trigger caller puts into its tasks array.
CallerTasks == {TaskX, TaskY, NullTask}

\* The JSON values a /create caller sends as the record.
CreateTasks == {TaskX, TaskY, TaskBlank, NullTask}

\* Wall-clock readings of getPendingTasks (formatted, America/New_York): two
\* in the same morning hour, one in the afternoon.
Clock == {"Nov 5, 2026, 08:00 AM", "Nov 5, 2026, 08:30 AM",
          "Nov 5, 2026, 03:00 PM"}

\* new Date().getHours() at each reading.
HourOf ==
    [t \in Clock |-> IF t = "Nov 5, 2026, 03:00 PM" THEN 15 ELSE 8]


\* --------------------------------------------------------------- messages

\* error.message of the faults the code can meet.  A message is a tuple of
\* its parts, so that a template literal keeps what it interpolates.
NullTitleFault == <<"Cannot read properties of null (reading 'title')">>

NullTasksFault == <<"Cannot read properties of null (reading 'tasks')">>

NotIterableFault == <<"tasks is not iterable">>

NoJsonFault == <<"Unexpected end of JSON input">>

FetchFault == <<"fetch failed">>

BodyFault == <<"Body is unusable">>

TimeZoneFault == <<"Invalid time zone specified: America/New_York">>

\* A slip: the body text alone, without the label and the status.
NotionApiErrorBare(status, errorText) == <<errorText>>

\* `Notion API error: ${response.status} ${errorText}`
NotionApiError(status, errorText) == <<"Notion API error:", status, errorText>>

\* ----------------------------------------------------------- task source

\* The one record getPendingTasks builds, titled with the formatted time.
BatchTask(formattedTime) ==
    Task(Some("Write Content Batch -- " \o formattedTime),
         Some("Hourly batch trigger. Write 5 articles from Content Lines with Status=Active."),
         Some("Queued"), Some("High"), Absent)

getPendingTasks(formattedTime) == <<BatchTask(formattedTime)>>

\* ---------------------------------------------------------- page submitter

\* buildNotionPage reads task.title first: a null task raises a TypeError.
BuildRaises(task) == task.kind = "null"

\* A slip: Notes is set without the test of task.description.
buildNotionPageAlwaysNotes(databaseId, task) ==
    [parent |-> databaseId,
     properties |->
        ("Title" :> task.title)
        @@ ("Status" :> (IF Truthy(task.status) THEN Get(task.status)
                         ELSE "Queued"))
        @@ ("Agent" :> "Content Writer")
        @@ ("Content Type" :> "Blog Post")
        @@ ("Notes" :> task.description)]

\* page.properties, each property reduced to the one value it carries
\* (Title: the text content, Status: the status name, ...).
buildNotionPage(databaseId, task) ==
    LET fixed == ("Title" :> task.title)
                 @@ ("Status" :> (IF Truthy(task.status)
                                  THEN Get(task.status) ELSE "Queued"))
                 @@ ("Agent" :> "Content Writer")
                 @@ ("Content Type" :> "Blog Post")
    IN  [parent |-> databaseId,
         properties |-> IF Truthy(task.description)
                        THEN fixed @@ ("Notes" :> Get(task.description))
                        ELSE fixed]

\* What the network call of one submission can come to: fetch rejects
\* (transport failure), or resolves with a status and a body that the read
\* (response.text() / response.json()) can or cannot deliver.
NetOutcomes ==
    { [fetch |-> "resolved", ok |-> TRUE,  status |-> "200", readable |-> TRUE,
       body |-> "page-1"],
      [fetch |-> "resolved", ok |-> TRUE,  status |-> "200", readable |-> FALSE,
       body |-> ""],
      [fetch |-> "resolved", ok |-> FALSE, status |-> "400", readable |-> TRUE,
       body |-> "validation_error"],
      [fetch |-> "resolved", ok |-> FALSE, status |-> "400", readable |-> FALSE,
       body |-> ""],
      [fetch |-> "rejected", ok |-> FALSE, status |-> "", readable |-> FALSE,
       body |-> ""] }

\* A DispatchResult; an Absent field is left out of the object.
SuccessResult(task, id) ==
    [success |-> TRUE, taskId |-> task.title, pageId |-> Some(id),
     error |-> Absent]

\* A slip: the failure result leaves out the taskId.
FailureResultNoTaskId(task, message) ==
    [success |-> FALSE, taskId |-> Absent, pageId |-> Absent,
     error |-> Some(message)]

\* A slip: the failure result carries a pageId.
FailureResultWithPageId(task, message) ==
    [success |-> FALSE, taskId |-> task.title, pageId |-> Some("unknown"),
     error |-> Some(message)]

FailureResult(task, message) ==
    [success |-> FALSE, taskId |-> task.title, pageId |-> Absent,
     error |-> Some(message)]

\* The message createNotionPage's catch block receives for outcome o.
SubmitFault(o) ==
    IF o.fetch = "rejected" THEN FetchFault
    ELSE IF ~o.readable THEN BodyFault
    ELSE NotionApiError(o.status, o.body)

\* What createNotionPage returns for a task it could build a page for, once
\* the network call has come to outcome o.
createNotionPageResult(task, o) ==
    IF o.fetch = "resolved" /\ o.ok /\ o.readable
    THEN SuccessResult(task, o.body)
    ELSE FailureResult(task, SubmitFault(o))

\* A slip: the result goes to the front (unshift for push).
PushResultFront(rs, r) == <<r>> \o rs

\* A slip: the result is not kept.
PushResultDrop(rs, r) == rs

\* results.push(result)
PushResult(rs, r) == Append(rs, r)

\* A slip: every result is counted as a success.
SuccessCountAll(rs) == Len(rs)

\* results.filter(r => r.success).length
SuccessCount(rs) == Len(SelectSeq(rs, LAMBDA r : r.success))

\* results.filter(r => !r.success).length
FailureCount(rs) == Len(SelectSeq(rs, LAMBDA r : ~r.success))

\* ------------------------------------------------------------ HTTP bodies

\* body.tasks of a /trigger request: undefined, null, a number, or an array.
NoTasksField == [type |-> "undefined", items |-> <<>>]

NullTasksField == [type |-> "null", items |-> <<>>]

NumberTasksField == [type |-> "number", items |-> <<>>]

ArrayTasksField(items) == [type |-> "array", items |-> items]

\* body.tasks || ...: undefined and null are falsy, an array (also the empty
\* one) and a non-zero number are truthy.
TasksTruthy(field) == field.type \in {"array", "number"}

RECURSIVE SeqsUpTo(_, _)
\* The sequences over S of length at most n.
SeqsUpTo(S, n) ==
    IF n = 0 THEN {<<>>}
    ELSE LET shorter == SeqsUpTo(S, n - 1)
         IN  shorter \cup {Append(q, x) : q \in shorter, x \in S}

\* A request body: none at all, or a JSON value, which /trigger reads through
\* its tasks property and /create passes on whole as the record.
NoBody == [json |-> "none", tasks |-> NoTasksField, record |-> NullTask]

NullBody == [json |-> "null", tasks |-> NoTasksField, record |-> NullTask]

ObjectBody(field) ==
    [json |-> "object", tasks |-> field,
     record |-> Task(Absent, Absent, Absent, Absent, Absent)]

RecordBody(task) ==
    [json |-> IF task.kind = "null" THEN "null" ELSE "object",
     tasks |-> NoTasksField, record |-> task]

CreateBodies == {NoBody} \cup {RecordBody(t) : t \in CreateTasks}

TriggerBodies ==
    {NoBody, NullBody, ObjectBody(NoTasksField), ObjectBody(NullTasksField),
     ObjectBody(NumberTasksField)}
    \cup {ObjectBody(ArrayTasksField(q)) : q \in SeqsUpTo(CallerTasks, MaxTasks)}

\* What a handler hands back: an HTTP response (status and JSON body) or,
\* for scheduled, the settled promise.  shape names the body's fields:
\*   "batch"    {success, message, results}      (/trigger, 200)
\*   "result"   one DispatchResult, in results   (/create, 200)
\*   "error"    {success: false, error}          (500)
\*   "resolved" / "rejected"                     (scheduled)
NoResponse ==
    [shape |-> "none", status |-> "", success |-> FALSE, message |-> <<>>,
     results |-> <<>>, error |-> Absent]

BatchResponse(n, rs) ==
    [shape |-> "batch", status |-> "200", success |-> TRUE,
     message |-> <<"Processed", n, "tasks">>, results |-> rs, error |-> Absent]

ResultResponse(r) ==
    [shape |-> "result", status |-> "200", success |-> r.success,
     message |-> <<>>, results |-> <<r>>, error |-> r.error]

ErrorResponse(message) ==
    [shape |-> "error", status |-> "500", success |-> FALSE, message |-> <<>>,
     results |-> <<>>, error |-> Some(message)]

Resolved ==
    [shape |-> "resolved", status |-> "", success |-> TRUE, message |-> <<>>,
     results |-> <<>>, error |-> Absent]

Rejected(message) ==
    [shape |-> "rejected", status |-> "", success |-> FALSE, message |-> <<>>,
     results |-> <<>>, error |-> Some(message)]

\* ------------------------------------------------------------------ state

VARIABLES
    db,          \* env.DB is configured
    cron_logs,   \* rows of table cron_logs
    error_logs,  \* rows of table error_logs
    pc,          \* each invocation's position in its handler
    entry,       \* the handler it runs: "scheduled", "trigger", "create"
    request,     \* the request body an HTTP invocation received
    now,         \* the clock reading of its getPendingTasks call, if any
    tasks,       \* const tasks
    idx,         \* the for-of loop's position in tasks (1-based)
    results,     \* const results = []
    inflight,    \* the page of the network call being awaited, if any
    calls,       \* network calls this invocation has made
    settled,     \* how the last network call of this invocation settled
    slept,       \* pauses (setTimeout 100) this invocation has taken
    rows,        \* rows this invocation has written to the log store
    attempts,    \* inserts into the log store this invocation has tried
    summary,     \* the counts scheduled derives after its loop
    caught,      \* the error scheduled's catch block holds
    response     \* what the handler handed back

vars == <<db, cron_logs, error_logs, pc, entry, request, now, tasks, idx,
          results, inflight, calls, settled, slept, rows, attempts, summary,
          caught, response>>

NoSummary == [totalTasks |-> 0, successCount |-> 0, failureCount |-> 0]

\* env.IDE_INBOX_DB_ID
DatabaseId == "ide-inbox-db"

Init ==
    /\ db \in BOOLEAN
    /\ cron_logs = <<>>
    /\ error_logs = <<>>
    /\ pc = [v \in Invs |-> "idle"]
    /\ entry = [v \in Invs |-> "none"]
    /\ request = [v \in Invs |-> NoBody]
    /\ now = [v \in Invs |-> Absent]
    /\ tasks = [v \in Invs |-> <<>>]
    /\ idx = [v \in Invs |-> 1]
    /\ results = [v \in Invs |-> <<>>]
    /\ inflight = [v \in Invs |-> Absent]
    /\ calls = [v \in Invs |-> 0]
    /\ settled = [v \in Invs |-> Absent]
    /\ slept = [v \in Invs |-> 0]
    /\ rows = [v \in Invs |-> 0]
    /\ attempts = [v \in Invs |-> 0]
    /\ summary = [v \in Invs |-> NoSummary]
    /\ caught = [v \in Invs |-> Absent]
    /\ response = [v \in Invs |-> NoResponse]

\* ------------------------------------------------------- control transfer

\* The handler goes on to position p.
Continue(v, p) ==
    /\ pc' = [pc EXCEPT ![v] = p]
    /\ UNCHANGED <<caught, response>>

\* The handler hands back r.
Return(v, r) ==
    /\ pc' = [pc EXCEPT ![v] = "done"]
    /\ response' = [response EXCEPT ![v] = r]
    /\ UNCHANGED caught

\* The handler hands back r from its catch block, which holds message.
ReturnCaught(v, message, r) ==
    /\ pc' = [pc EXCEPT ![v] = "done"]
    /\ response' = [response EXCEPT ![v] = r]
    /\ caught' = [caught EXCEPT ![v] = Some(message)]

\* A slip: a catch block that drops the error.
HandlerCatchSwallows(v, handler, message) ==
    ReturnCaught(v, message, Resolved)

\* A fault reaches the handler's catch block.  fetch answers status 500;
\* scheduled logs the error when env.DB is set (it awaits logErrorToD1) and
\* then rethrows.
HandlerCatch(v, handler, message) ==
    IF handler = "scheduled"
    THEN IF db
         THEN /\ pc' = [pc EXCEPT ![v] = "logerror"]
              /\ caught' = [caught EXCEPT ![v] = Some(message)]
              /\ UNCHANGED response
         ELSE ReturnCaught(v, message, Rejected(message))
    ELSE ReturnCaught(v, message, ErrorResponse(message))

\* The model starts an invocation only while no other one is in flight.
Quiet(v) == \A w \in Invs \ {v} : pc[w] = "idle"

\* -------------------------------------------------------------- run logger

\* A slip: logToD1 without its try/catch.
logToD1Rethrows(configured, writeOk) == configured /\ ~writeOk

\* A slip: logToD1 raises after its insert.
logToD1RaisesAfterInsert(configured, writeOk) == configured

\* logToD1's try/catch: a failed write is logged to the console and dropped.
logToD1Escapes(configured, writeOk) == FALSE

\* logToD1 inserts a row when env.DB is set and the write succeeds.
logToD1Writes(configured, writeOk) == configured /\ writeOk

\* logErrorToD1's try/catch.
logErrorToD1Escapes(configured, writeOk) == FALSE

logErrorToD1Writes(configured, writeOk) == configured /\ writeOk

D1Fault == <<"D1_ERROR">>

\* The row of cron_logs (the timestamp and the results text are left out).
CronRow(s) ==
    [total_tasks |-> s.totalTasks, success_count |-> s.successCount,
     failure_count |-> s.failureCount]

\* The row of error_logs.
ErrorRow(message) == [error_message |-> message]

\* Lines 98-99 and 107: the counts of the batch.
Summarize(ts, rs) ==
    [totalTasks |-> Len(ts), successCount |-> SuccessCount(rs),
     failureCount |-> FailureCount(rs)]

\* ---------------------------------------------------------------- actions

\* The loop is entered with the tasks ts (scheduled returns at once when
\* there are none; /trigger answers for an empty loop).
EnterLoop(v, handler, ts) ==
    /\ tasks' = [tasks EXCEPT ![v] = ts]
    /\ IF ts /= <<>>
       THEN Continue(v, "submit")
       ELSE IF handler = "scheduled"
            THEN Return(v, Resolved)
            ELSE Return(v, BatchResponse(0, <<>>))

\* scheduled, up to its first await of createNotionPage: the cron trigger
\* fires, getPendingTasks reads the clock, formats the time (toLocaleString
\* raises a RangeError in a runtime without the time zone) and builds the
\* tasks.
ScheduledStart(v) ==
    /\ pc[v] = "idle"
    /\ Len(cron_logs) + Len(error_logs) < MaxRows
    /\ entry' = [entry EXCEPT ![v] = "scheduled"]
    /\ \E formattedTime \in Clock, zoneKnown \in BOOLEAN :
          /\ now' = [now EXCEPT ![v] = Some(formattedTime)]
          /\ IF zoneKnown
             THEN EnterLoop(v, "scheduled", getPendingTasks(formattedTime))
             ELSE /\ HandlerCatch(v, "scheduled", TimeZoneFault)
                  /\ UNCHANGED tasks
    /\ UNCHANGED <<db, cron_logs, error_logs, request, idx, results, inflight,
                   calls, settled, slept, rows, attempts, summary>>

Scheduled(v) == Quiet(v) /\ ScheduledStart(v)

\* The fault, if any, that keeps /trigger from getting its tasks.
TriggerFault(body, zoneKnown) ==
    IF body.json = "none" THEN Some(NoJsonFault)
    ELSE IF body.json = "null" THEN Some(NullTasksFault)
    ELSE IF TasksTruthy(body.tasks)
         THEN IF body.tasks.type = "array" THEN Absent
              ELSE Some(NotIterableFault)
         ELSE IF zoneKnown THEN Absent ELSE Some(TimeZoneFault)

\* /trigger calls getPendingTasks: the body is read and its tasks are falsy.
TriggerDerives(body) == body.json = "object" /\ ~TasksTruthy(body.tasks)

\* const tasks = body.tasks || await getPendingTasks(env)
TriggerTasks(body, formattedTime) ==
    IF TasksTruthy(body.tasks) THEN body.tasks.items
    ELSE getPendingTasks(formattedTime)

\* fetch, POST /trigger, up to its first await of createNotionPage, for a
\* request body of the set bodies.
TriggerStart(v, bodies) ==
    /\ pc[v] = "idle"
    /\ entry' = [entry EXCEPT ![v] = "trigger"]
    /\ \E body \in bodies, formattedTime \in Clock, zoneKnown \in BOOLEAN :
          /\ request' = [request EXCEPT ![v] = body]
          /\ now' = [now EXCEPT ![v] = IF TriggerDerives(body)
                                       THEN Some(formattedTime) ELSE Absent]
          /\ IF Has(TriggerFault(body, zoneKnown))
             THEN /\ HandlerCatch(v, "trigger", Get(TriggerFault(body, zoneKnown)))
                  /\ UNCHANGED tasks
             ELSE EnterLoop(v, "trigger", TriggerTasks(body, formattedTime))
    /\ UNCHANGED <<db, cron_logs, error_logs, idx, results, inflight, calls,
                   settled, slept, rows, attempts, summary>>

Trigger(v) == Quiet(v) /\ TriggerStart(v, TriggerBodies)

\* fetch, POST /create, up to its await of createNotionPage.
CreateStart(v, bodies) ==
    /\ pc[v] = "idle"
    /\ entry' = [entry EXCEPT ![v] = "create"]
    /\ \E body \in bodies :
          /\ request' = [request EXCEPT ![v] = body]
          /\ IF body.json = "none"
             THEN /\ HandlerCatch(v, "create", NoJsonFault)
                  /\ UNCHANGED tasks
             ELSE EnterLoop(v, "create", <<body.record>>)
    /\ UNCHANGED <<db, cron_logs, error_logs, now, idx, results, inflight,
                   calls, settled, slept, rows, attempts, summary>>

Create(v) == Quiet(v) /\ CreateStart(v, CreateBodies)

\* createNotionPage calls fetch once.
CallsAfterSubmit(n) == n + 1

\* createNotionPage up to its await of fetch.  For a null task
\* buildNotionPage raises inside the try block, and the catch block, which
\* reads task.title for the result, raises again: the fault leaves
\* createNotionPage and reaches the handler's catch block.
CreatePageCall(v) ==
    /\ pc[v] = "submit"
    /\ LET task == tasks[v][idx[v]]
       IN  IF BuildRaises(task)
           THEN /\ HandlerCatch(v, entry[v], NullTitleFault)
                /\ UNCHANGED <<inflight, calls>>
           ELSE /\ inflight' = [inflight EXCEPT
                                  ![v] = Some(buildNotionPage(DatabaseId, task))]
                /\ calls' = [calls EXCEPT ![v] = CallsAfterSubmit(@)]
                /\ Continue(v, "await")
    /\ UNCHANGED <<db, cron_logs, error_logs, entry, request, now, tasks, idx,
                   results, settled, rows, attempts, slept, summary>>

\* A slip: the pause in the loop of every handler.
PausesAlways(handler) == TRUE

\* Only scheduled awaits setTimeout(resolve, 100) after results.push.
PausesAfterSubmit(handler) == handler = "scheduled"

\* A slip: one results array for the module, shared by the invocations.
ResultsShared(v) == "inv1"

\* const results = []: each invocation pushes to the array of its own call.
ResultsOwner(v) == v

\* The network call settles; createNotionPage returns its result to the
\* handler, which pushes it and goes on: scheduled to its pause, /trigger to
\* the next task or to its response, /create to its response.
CreatePageReturn(v) ==
    /\ pc[v] = "await"
    /\ \E o \in NetOutcomes :
          LET r  == createNotionPageResult(tasks[v][idx[v]], o)
              rs == PushResult(results[ResultsOwner(v)], r)
          IN  /\ results' = [results EXCEPT ![ResultsOwner(v)] = rs]
              /\ settled' = [settled EXCEPT ![v] = Some(o)]
              /\ IF PausesAfterSubmit(entry[v])
                 THEN /\ Continue(v, "pause")
                      /\ UNCHANGED idx
                 ELSE IF entry[v] = "create"
                 THEN /\ Return(v, ResultResponse(r))
                      /\ UNCHANGED idx
                 ELSE /\ idx' = [idx EXCEPT ![v] = @ + 1]
                      /\ IF idx[v] < Len(tasks[v])
                         THEN Continue(v, "submit")
                         ELSE Return(v, BatchResponse(Len(tasks[v]), rs))
    /\ inflight' = [inflight EXCEPT ![v] = Absent]
    /\ UNCHANGED <<db, cron_logs, error_logs, entry, request, now, tasks,
                   calls, slept, rows, attempts, summary>>

\* scheduled: the 100 ms timer fires.  The loop takes the next task or, after
\* the last one, the counts are derived and, with env.DB set, logToD1 is
\* awaited.
Pause(v) ==
    /\ pc[v] = "pause"
    /\ slept' = [slept EXCEPT ![v] = @ + 1]
    /\ idx' = [idx EXCEPT ![v] = @ + 1]
    /\ IF idx[v] < Len(tasks[v])
       THEN /\ Continue(v, "submit")
            /\ UNCHANGED summary
       ELSE /\ summary' = [summary EXCEPT ![v] = Summarize(tasks[v], results[v])]
            /\ IF db THEN Continue(v, "log") ELSE Return(v, Resolved)
    /\ UNCHANGED <<db, cron_logs, error_logs, entry, request, now, tasks,
                   results, inflight, calls, settled, rows, attempts>>

\* logToD1's insert succeeds or fails.
LogRun(v) ==
    /\ pc[v] = "log"
    /\ attempts' = [attempts EXCEPT ![v] = @ + 1]
    /\ \E writeOk \in BOOLEAN :
          /\ IF logToD1Writes(db, writeOk)
             THEN /\ cron_logs' = Append(cron_logs, CronRow(summary[v]))
                  /\ rows' = [rows EXCEPT ![v] = @ + 1]
             ELSE UNCHANGED <<cron_logs, rows>>
          /\ IF logToD1Escapes(db, writeOk)
             THEN HandlerCatch(v, "scheduled", D1Fault)
             ELSE Return(v, Resolved)
    /\ UNCHANGED <<db, error_logs, entry, request, now, tasks, idx, results,
                   inflight, calls, settled, slept, summary>>

\* logErrorToD1's insert succeeds or fails; scheduled rethrows the error it
\* caught.
LogError(v) ==
    /\ pc[v] = "logerror"
    /\ attempts' = [attempts EXCEPT ![v] = @ + 1]
    /\ \E writeOk \in BOOLEAN :
          /\ IF logErrorToD1Writes(db, writeOk)
             THEN /\ error_logs' = Append(error_logs, ErrorRow(Get(caught[v])))
                  /\ rows' = [rows EXCEPT ![v] = @ + 1]
             ELSE UNCHANGED <<error_logs, rows>>
          /\ IF logErrorToD1Escapes(db, writeOk)
             THEN Return(v, Rejected(D1Fault))
             ELSE Return(v, Rejected(Get(caught[v])))
    /\ UNCHANGED <<db, cron_logs, entry, request, now, tasks, idx, results,
                   inflight, calls, settled, slept, summary>>

\* The host has taken the response; the invocation's locals are gone.
Finish(v) ==
    /\ pc[v] = "done"
    /\ pc' = [pc EXCEPT ![v] = "idle"]
    /\ entry' = [entry EXCEPT ![v] = "none"]
    /\ request' = [request EXCEPT ![v] = NoBody]
    /\ now' = [now EXCEPT ![v] = Absent]
    /\ tasks' = [tasks EXCEPT ![v] = <<>>]
    /\ idx' = [idx EXCEPT ![v] = 1]
    /\ results' = [results EXCEPT ![v] = <<>>]
    /\ inflight' = [inflight EXCEPT ![v] = Absent]
    /\ calls' = [calls EXCEPT ![v] = 0]
    /\ settled' = [settled EXCEPT ![v] = Absent]
    /\ slept' = [slept EXCEPT ![v] = 0]
    /\ rows' = [rows EXCEPT ![v] = 0]
    /\ attempts' = [attempts EXCEPT ![v] = 0]
    /\ summary' = [summary EXCEPT ![v] = NoSummary]
    /\ caught' = [caught EXCEPT ![v] = Absent]
    /\ response' = [response EXCEPT ![v] = NoResponse]
    /\ UNCHANGED <<db, cron_logs, error_logs>>

Next ==
    \E v \in Invs :
        \/ Scheduled(v)
        \/ Trigger(v)
        \/ Create(v)
        \/ CreatePageCall(v)
        \/ CreatePageReturn(v)
        \/ Pause(v)
        \/ LogRun(v)
        \/ LogError(v)
        \/ Finish(v)

Spec == Init /\ [][Next]_vars

\* ---------------------------------------------- overlapping invocations

\* The request bodies of the invocations that may overlap.
OverlapTriggerBodies ==
    {ObjectBody(ArrayTasksField(<<TaskX, TaskY>>)),
     ObjectBody(ArrayTasksField(<<TaskY, TaskX>>)),
     ObjectBody(ArrayTasksField(<<TaskX, NullTask>>)),
     ObjectBody(NoTasksField)}

OverlapCreateBodies == {RecordBody(TaskX), RecordBody(TaskY)}

\* The isolate takes a new event whenever a slot is free, also while another
\* invocation is suspended at an await.
OverlapScheduled(v) == ScheduledStart(v)

OverlapTrigger(v) == TriggerStart(v, OverlapTriggerBodies)

OverlapCreate(v) == CreateStart(v, OverlapCreateBodies)

NextOverlap ==
    \E v \in Invs :
        \/ OverlapScheduled(v)
        \/ OverlapTrigger(v)
        \/ OverlapCreate(v)
        \/ CreatePageCall(v)
        \/ CreatePageReturn(v)
        \/ Pause(v)
        \/ LogRun(v)
        \/ LogError(v)
        \/ Finish(v)

SpecOverlap == Init /\ [][NextOverlap]_vars

\* ----------------------------------------------------------------- claims

\* The invocation runs a batch (scheduled or /trigger) over a non-empty
\* task sequence.
IsBatch(v) == entry[v] \in {"scheduled", "trigger"} /\ tasks[v] /= <<>>

\* Its loop has gone over the whole sequence.
BatchCompleted(v) == IsBatch(v) /\ idx[v] > Len(tasks[v])

\* The results so far answer the first records of the input, in input order,
\* and the last one is what the last settled network call gives for its record.
InInputOrder(v) ==
    /\ Len(results[v]) <= Len(tasks[v])
    /\ \A i \in 1..Len(results[v]) : results[v][i].taskId = tasks[v][i].title
    /\ results[v] /= <<>> =>
          /\ Has(settled[v])
          /\ results[v][Len(results[v])] =
                createNotionPageResult(tasks[v][Len(results[v])], Get(settled[v]))

\* C1: for every non-empty task sequence given to a batch run (scheduled,
\* /trigger), a completed batch holds exactly one result per input record,
\* in input order; while the batch runs, the results are the in-order
\* prefix; the /trigger response carries exactly these results.
C1_OneResultPerRecordInOrder ==
    \A v \in Invs :
        IsBatch(v) =>
            /\ InInputOrder(v)
            /\ BatchCompleted(v) => Len(results[v]) = Len(tasks[v])
            /\ (BatchCompleted(v) /\ entry[v] = "trigger" /\ pc[v] = "done")
                  => /\ response[v].shape = "batch"
                     /\ response[v].results = results[v]

\* A /trigger batch of three records with different titles has completed.
C1_Witness ==
    \E v \in Invs :
        /\ entry[v] = "trigger"
        /\ pc[v] = "done"
        /\ tasks[v] = <<TaskX, TaskY, TaskX>>
        /\ BatchCompleted(v)
        /\ Len(response[v].results) = 3

\* Record i of the batch of v was submitted and its submission failed: it
\* came back as a failure result, or createNotionPage raised on it.
SubmissionFailed(v, i) ==
    \/ i <= Len(results[v]) /\ ~results[v][i].success
    \/ /\ i = Len(results[v]) + 1
       /\ pc[v] \in {"done", "logerror"}
       /\ i <= Len(tasks[v])

\* C2: one record's failure never aborts the batch: whenever the submission
\* of record i fails, every later record is still submitted and the batch
\* ends with one result per record.
C2_FailureNeverAbortsBatch ==
    \A v \in Invs :
        (IsBatch(v) /\ pc[v] = "done") =>
            \A i \in 1..Len(tasks[v]) :
                SubmissionFailed(v, i) =>
                    /\ \A j \in (i + 1)..Len(tasks[v]) : j <= Len(results[v])
                    /\ Len(results[v]) = Len(tasks[v])

\* The number of results of rs that are successes / failures, counted by
\* position.
Successes(rs) == Cardinality({i \in 1..Len(rs) : rs[i].success})

Failures(rs) == Cardinality({i \in 1..Len(rs) : ~rs[i].success})

\* s is a right summary of the results rs of the tasks ts.
RightSummary(s, ts, rs) ==
    /\ s.successCount = Successes(rs)
    /\ s.failureCount = Failures(rs)
    /\ s.successCount + s.failureCount = s.totalTasks
    /\ s.totalTasks = Len(rs)
    /\ s.totalTasks = Len(ts)

\* Three results of which only the second is a failure.
OnlySecondFailed(rs) ==
    Len(rs) = 3 /\ rs[1].success /\ ~rs[2].success /\ rs[3].success

\* C3: in every batch summary successCount counts the successes, failureCount
\* the failures, and successCount + failureCount = totalTasks = len(results):
\* the summary scheduled derives and the row it logs; and the summary of the
\* results of any completed batch, in particular 3, 2, 1 for three records of
\* which only the second fails.
C3_SummaryCounts ==
    /\ \A v \in Invs :
          (entry[v] = "scheduled" /\ BatchCompleted(v))
             => RightSummary(summary[v], tasks[v], results[v])
    /\ \A k \in 1..Len(cron_logs) :
          cron_logs[k].success_count + cron_logs[k].failure_count
             = cron_logs[k].total_tasks
    /\ \A v \in Invs :
          BatchCompleted(v) =>
             LET s == Summarize(tasks[v], results[v])
             IN  /\ RightSummary(s, tasks[v], results[v])
                 /\ OnlySecondFailed(results[v])
                       => /\ s.totalTasks = 3
                          /\ s.successCount = 2
                          /\ s.failureCount = 1
                          /\ ~results[v][2].success

\* A batch of three records has completed and only the second one failed,
\* with a non-2xx answer.
C3_Witness ==
    \E v \in Invs :
        /\ BatchCompleted(v)
        /\ OnlySecondFailed(results[v])
        /\ results[v][2].error = Some(NotionApiError("400", "validation_error"))

\* createNotionPage was called for a record of v and has ended: the handler
\* is past the read of its input and has handed back its response.
SubmitterCalled(v) == pc[v] = "done" /\ tasks[v] /= <<>>

\* C4: createNotionPage never lets a fault escape: for every value passed to
\* it as a record and for every outcome of the network call it returns a
\* DispatchResult, so no handler that called it ends in its catch block
\* (/create and /trigger: status 500; scheduled: a rejected promise).
C4_SubmitterNeverRaises ==
    \A v \in Invs :
        SubmitterCalled(v) =>
            /\ response[v].shape \notin {"error", "rejected"}
            /\ entry[v] = "create" => Len(results[v]) = 1

\* The last network call of v came back with a non-2xx status.
GotNon2xx(v) ==
    /\ Has(settled[v])
    /\ Get(settled[v]).fetch = "resolved"
    /\ ~Get(settled[v]).ok

\* The result createNotionPage returned for that call.
LastResult(v) == results[v][Len(results[v])]

\* Every network call of v that has settled has given one result.
EveryCallReturned(v) ==
    Len(results[v]) = IF Has(inflight[v]) THEN calls[v] - 1 ELSE calls[v]

\* C5 as stated: a call that receives a non-2xx response (with a body text
\* to read) returns a result with success = false whose error is the
\* response body text.
C5_ErrorIsBodyText ==
    \A v \in Invs :
        (GotNon2xx(v) /\ Get(settled[v]).readable) =>
            /\ EveryCallReturned(v)
            /\ ~LastResult(v).success
            /\ LastResult(v).error = Some(<<Get(settled[v]).body>>)

\* C5 as amended: a call that receives a non-2xx response does not raise; it
\* returns a result with success = false, the record's title as taskId, no
\* pageId, and as error the message "Notion API error: <status> <body text>"
\* (the body text after the label and the status code), or the message of
\* the read fault when the body cannot be read.
C5_ErrorHoldsStatusAndBodyText ==
    \A v \in Invs :
        GotNon2xx(v) =>
            /\ EveryCallReturned(v)
            /\ ~LastResult(v).success
            /\ LastResult(v).pageId = Absent
            /\ LastResult(v).taskId = tasks[v][Len(results[v])].title
            /\ LastResult(v).error =
                  Some(IF Get(settled[v]).readable
                       THEN <<"Notion API error:", Get(settled[v]).status,
                              Get(settled[v]).body>>
                       ELSE BodyFault)

\* A call has come back with status 400 and a readable body.
C5_Witness ==
    \E v \in Invs :
        /\ GotNon2xx(v)
        /\ Get(settled[v]).readable
        /\ Get(settled[v]).body = "validation_error"
        /\ ~LastResult(v).success

\* C6: the run logger is best-effort.  With no store configured nothing is
\* written; a scheduled run whose loop completed resolves whether or not the
\* write succeeded (it wrote one row or none); a run that caught an error
\* rejects with that error, never with the store's.
C6_LoggingIsBestEffort ==
    /\ ~db => /\ cron_logs = <<>>
              /\ error_logs = <<>>
              /\ \A v \in Invs : rows[v] = 0 /\ pc[v] \notin {"log", "logerror"}
    /\ \A v \in Invs :
          (entry[v] = "scheduled" /\ pc[v] = "done") =>
              /\ rows[v] <= 1
              /\ BatchCompleted(v) => response[v] = Resolved
              /\ response[v].shape = "rejected"
                    => /\ response[v].error /= Some(D1Fault)
                       /\ Has(caught[v]) => response[v].error = caught[v]

\* A scheduled run with a store configured completed its batch, the write of
\* its row failed, and it resolved.
C6_Witness ==
    \E v \in Invs :
        /\ db
        /\ entry[v] = "scheduled"
        /\ pc[v] = "done"
        /\ BatchCompleted(v)
        /\ rows[v] = 0
        /\ cron_logs = <<>>
        /\ response[v] = Resolved

\* The tasks getPendingTasks can derive.
DerivedTasks == {getPendingTasks(t) : t \in Clock}

\* The body of the /trigger request of v is absent or has no tasks field.
NoTasksGiven(v) ==
    \/ request[v].json = "none"
    \/ request[v].json = "object" /\ request[v].tasks.type = "undefined"

\* C7: a POST to /trigger whose body is absent, or whose JSON body has no
\* tasks field, falls back to the derived tasks, submits them and answers
\* status 200 with {success, message, results} (unless deriving them fails);
\* a body with a tasks array submits exactly those tasks.
C7_TriggerFallsBack ==
    \A v \in Invs :
        (entry[v] = "trigger" /\ pc[v] = "done") =>
            /\ (NoTasksGiven(v) /\ response[v].error /= Some(TimeZoneFault))
                  => /\ tasks[v] \in DerivedTasks
                     /\ response[v].status = "200"
                     /\ response[v].shape = "batch"
                     /\ Len(response[v].results) = Len(tasks[v])
            /\ request[v].tasks.type = "array"
                  => tasks[v] = request[v].tasks.items

\* The record whose page v is submitting.
CurrentTask(v) == tasks[v][idx[v]]

\* The record sets its title and nothing else.
OnlyTitleSet(task) ==
    /\ task.kind = "object"
    /\ Has(task.title)
    /\ ~Has(task.description)
    /\ ~Has(task.status)
    /\ ~Has(task.priority)
    /\ ~Has(task.tags)

\* The property of the page that carries each optional field of a record.
FieldOfProperty ==
    [Notes |-> "description", Status |-> "status", Priority |-> "priority",
     Tags |-> "tags"]

C9_TagsAsMultiSelect ==
    \A v \in Invs :
        (Has(inflight[v]) /\ Has(CurrentTask(v).tags)) =>
            LET props == Get(inflight[v]).properties
            IN  /\ "Tags" \in DOMAIN props
                /\ props["Tags"] = Get(CurrentTask(v).tags)

\* C10: every DispatchResult carries the originating record's title as
\* taskId, on success and on failure alike; POST /create with {"title":"X"}
\* answers with a single DispatchResult whose taskId is "X".
C10_TaskIdIsTitle ==
    \A v \in Invs :
        /\ \A i \in 1..Len(results[v]) :
              results[v][i].taskId = tasks[v][i].title
        /\ (entry[v] = "create" /\ pc[v] = "done" /\ response[v].shape = "result")
              => /\ response[v].results = results[v]
                 /\ Len(results[v]) = 1
                 /\ results[v][1].taskId = request[v].record.title
        /\ (entry[v] = "create" /\ pc[v] = "done"
               /\ request[v] = RecordBody(TaskX))
              => /\ response[v].shape = "result"
                 /\ response[v].results[1].taskId = Some("X")

\* /create with {"title":"X"} has answered with a failure result.
C10_Witness ==
    \E v \in Invs :
        /\ entry[v] = "create"
        /\ pc[v] = "done"
        /\ request[v] = RecordBody(TaskX)
        /\ response[v].shape = "result"
        /\ ~response[v].results[1].success

\* The morning window of the documented rules: hour >= 6 && hour < 12.
MorningWindow == 6..11

\* The invocation has derived its tasks from the clock.
Derived(v) == Has(now[v]) /\ tasks[v] /= <<>>

\* C11: when the hour of the clock reading falls in the morning window,
\* getPendingTasks returns exactly one record, titled "Daily Code Review",
\* with priority "High"; the tasks derived at a reading are those of every
\* reading of the same hour.
C11_MorningRule ==
    /\ \A v \in Invs :
          (Derived(v) /\ HourOf[Get(now[v])] \in MorningWindow)
             => /\ Len(tasks[v]) = 1
                /\ tasks[v][1].title = Some("Daily Code Review")
                /\ tasks[v][1].priority = Some("High")
    /\ \A v \in Invs :
          Derived(v) =>
             \A t \in Clock :
                HourOf[t] = HourOf[Get(now[v])] => tasks[v] = getPendingTasks(t)

\* The handler has ended in its catch block for a fault raised before the
\* loop over the tasks (reading the request, deriving the tasks).
FaultOutsideLoop(v) ==
    pc[v] = "done" /\ Has(caught[v]) /\ tasks[v] = <<>>

\* The only log attempt the handler may have made for the fault.
OneLogAttempt(v) == attempts[v] = IF db THEN 1 ELSE 0

\* The caller has got the fault: scheduled's promise is rejected with it,
\* /trigger and /create answer 500, success false and its message.
Propagated(v) ==
    IF entry[v] = "scheduled"
    THEN response[v] = Rejected(Get(caught[v]))
    ELSE /\ response[v].status = "500"
         /\ ~response[v].success
         /\ response[v].error = caught[v]

\* C12 as stated: every fault raised outside the loop is propagated to the
\* caller after one best-effort attempt to write it to the error log, in
\* scheduled and in /trigger.
C12_LoggedThenPropagated ==
    \A v \in Invs :
        (FaultOutsideLoop(v) /\ entry[v] \in {"scheduled", "trigger"})
           => OneLogAttempt(v) /\ Propagated(v)

\* C12, amended: every fault raised outside the loop is propagated to the
\* caller; scheduled first makes its one attempt to write it to the error
\* log, /trigger makes no attempt and writes no row.
C12_PropagatedLoggedByScheduledOnly ==
    \A v \in Invs :
        FaultOutsideLoop(v) =>
            /\ Propagated(v)
            /\ entry[v] = "scheduled" => OneLogAttempt(v)
            /\ entry[v] = "trigger" => attempts[v] = 0 /\ rows[v] = 0

\* /trigger has answered 500 for a body it could not read, with the log
\* store configured and no attempt to write to it.
C12_Witness ==
    \E v \in Invs :
        /\ entry[v] = "trigger"
        /\ FaultOutsideLoop(v)
        /\ request[v] = NoBody
        /\ db
        /\ attempts[v] = 0
        /\ response[v] = ErrorResponse(NoJsonFault)

\* C13 as stated: in scheduled and in /trigger alike, a pause has followed
\* every submission that has ended before the next one starts.
C13_PauseBetweenSubmissions ==
    \A v \in Invs :
        (IsBatch(v) /\ pc[v] \in {"submit", "await"})
           => slept[v] = Len(results[v])

\* C13, amended: scheduled pauses after every submission, the last one
\* included; /trigger and /create never pause.
C13_OnlyScheduledPauses ==
    \A v \in Invs :
        /\ entry[v] = "scheduled"
              => slept[v] = IF pc[v] = "pause" THEN Len(results[v]) - 1
                            ELSE Len(results[v])
        /\ entry[v] \in {"trigger", "create"} => slept[v] = 0

\* /trigger has started its third submission without a pause.
C13_Witness ==
    \E v \in Invs :
        /\ entry[v] = "trigger"
        /\ pc[v] = "await"
        /\ Len(results[v]) = 2
        /\ slept[v] = 0

\* C14: within one batch at most one submission is in flight, and the
\* submission of record i+1 starts only after the result of record i has
\* been appended to the results.
C14_StrictlySequential ==
    \A v \in Invs :
        /\ Has(inflight[v]) <=> pc[v] = "await"
        /\ calls[v] - Len(results[v]) = IF pc[v] = "await" THEN 1 ELSE 0
        /\ pc[v] \in {"submit", "await"} => idx[v] = Len(results[v]) + 1

\* The second submission of a /trigger batch is in flight; the result of
\* the first is in the results.
C14_Witness ==
    \E v \in Invs :
        /\ entry[v] = "trigger"
        /\ pc[v] = "await"
        /\ idx[v] = 2
        /\ calls[v] = 2
        /\ Len(results[v]) = 1

\* C15: one submit call makes exactly one network call, so a batch that has
\* ended has made exactly one request per input record.
C15_OneRequestPerRecord ==
    \A v \in Invs :
        (IsBatch(v) /\ pc[v] = "done") => calls[v] = Len(tasks[v])

\* One of the two shapes of a result.
RightShape(r) ==
    IF r.success
    THEN ~Has(r.error)
    ELSE Has(r.error) /\ ~Has(r.pageId)

\* C16: every result is success = true with no error, or success = false
\* with an error message and no pageId, in the results of the handler and
\* in the response.
C16_ResultShapes ==
    \A v \in Invs :
        /\ \A i \in 1..Len(results[v]) : RightShape(results[v][i])
        /\ \A i \in 1..Len(response[v].results) :
              RightShape(response[v].results[i])

\* A /trigger response holds a success with a pageId and a failure.
C16_Witness ==
    \E v \in Invs :
        /\ entry[v] = "trigger"
        /\ pc[v] = "done"
        /\ Len(response[v].results) = 2
        /\ response[v].results[1].success
        /\ Has(response[v].results[1].pageId)
        /\ ~response[v].results[2].success

\* C17: scheduled writes no row and tries no insert before the last
\* submission of the batch has returned and its pause is over; one
\* invocation writes at most one row, to cron_logs or to error_logs.
C17_NoPartialPersistence ==
    \A v \in Invs :
        /\ (entry[v] = "scheduled" /\ pc[v] \in {"submit", "await", "pause"})
              => rows[v] = 0 /\ attempts[v] = 0
        /\ rows[v] <= 1
        /\ attempts[v] <= 1

\* scheduled has ended after its batch and has written its row of cron_logs.
C17_Witness ==
    \E v \in Invs :
        /\ entry[v] = "scheduled"
        /\ pc[v] = "done"
        /\ BatchCompleted(v)
        /\ rows[v] = 1
        /\ cron_logs /= <<>>

\* C18: when invocations interleave at their awaits, the results of each
\* hold one result per record of its own tasks, in the order of its own
\* tasks, and none of another invocation; each makes its own requests.
C18_OverlapKeepsResultsApart ==
    \A v \in Invs :
        /\ InInputOrder(v)
        /\ calls[v] <= Len(tasks[v])
        /\ BatchCompleted(v) => Len(results[v]) = Len(tasks[v])
        /\ (pc[v] = "done" /\ response[v].shape \in {"batch", "result"})
              => response[v].results = results[v]

\* scheduled is in its pause while a /trigger batch over two other records,
\* started meanwhile, has its second submission in flight.
C18_Witness ==
    \E v, w \in Invs :
        /\ entry[v] = "scheduled"
        /\ pc[v] = "pause"
        /\ Len(results[v]) = 1
        /\ entry[w] = "trigger"
        /\ pc[w] = "await"
        /\ tasks[w] = <<TaskX, TaskY>>
        /\ Len(results[w]) = 1
        /\ results[w][1].taskId = Some("X")

\* C19: a /trigger whose loop has completed answers 200 and success = true,
\* whatever its results; it answers 500 only for a fault raised outside the
\* submissions of the records.
C19_TriggerReportsBatch ==
    \A v \in Invs :
        (entry[v] = "trigger" /\ pc[v] = "done") =>
            /\ BatchCompleted(v)
                  => response[v].status = "200" /\ response[v].success
            /\ response[v].status = "500" => FaultOutsideLoop(v)

=============================================================================
